---- MODULE Spec2Model ----
(***************************************************************************)
(* Model of githuberino.py: github_allpages (the paginated fetch loop),    *)
(* github_pagination (the Link header parser) and github_rest_api (one     *)
(* GET with session selection and rate-limit bookkeeping).                 *)
(*                                                                         *)
(* Python strings are sequences of one-character strings, so that split,   *)
(* strip and slicing are computed as Python computes them.  Python values  *)
(* of mixed type (None, int, str) are records of one shape.                *)
(***************************************************************************)
EXTENDS Integers, Sequences, FiniteSets, TLC

(* ---------------------------------------------------------------- bounds *)

\* The largest number of GETs one github_allpages call issues in the model.
MaxPages == 3

\* The largest number of entries in a Link header handed to github_pagination.
MaxLinks == 2

(* -------------------------------------------------------- Python values *)

PyNone == [t |-> "none", s |-> <<>>, n |-> 0]
PyInt(i) == [t |-> "int", s |-> <<>>, n |-> i]
PyStr(str) == [t |-> "str", s |-> str, n |-> 0]

\* Python truthiness of None, an int or a str (`not x` is ~Truthy(x)).
Truthy(v) ==
    CASE v.t = "none" -> FALSE
      [] v.t = "int" -> v.n # 0
      [] OTHER -> v.s # <<>>

Last(list) == list[Len(list)]

\* str.split(sep) for a one-character separator: '' splits to [''].
RECURSIVE Split(_, _)
Split(str, sep) ==
    LET hits == {k \in 1..Len(str) : str[k] = sep}
    IN IF hits = {}
       THEN <<str>>
       ELSE LET i == CHOOSE k \in hits : \A j \in hits : k <= j
            IN <<SubSeq(str, 1, i - 1)>> \o Split(SubSeq(str, i + 1, Len(str)), sep)

IsSpace(ch) == ch \in {" ", "\t", "\n", "\r"}

\* str.strip(): drops leading and trailing whitespace.
RECURSIVE Strip(_)
Strip(str) ==
    IF str = <<>> THEN str
    ELSE IF IsSpace(str[1]) THEN Strip(Tail(str))
    ELSE IF IsSpace(str[Len(str)]) THEN Strip(SubSeq(str, 1, Len(str) - 1))
    ELSE str

\* The slice str[1:-1].
Inner(str) == SubSeq(str, 2, Len(str) - 1)

DigitChars == <<"0", "1", "2", "3", "4", "5", "6", "7", "8", "9">>

IsDigit(ch) == \E d \in 1..10 : DigitChars[d] = ch

DigitVal(ch) == (CHOOSE d \in 1..10 : DigitChars[d] = ch) - 1

\* int(str) for a string of decimal digits.
RECURSIVE int(_)
int(str) ==
    IF Len(str) = 1 THEN DigitVal(str[1])
    ELSE 10 * int(SubSeq(str, 1, Len(str) - 1)) + DigitVal(str[Len(str)])

\* d[key] = value on a dict (a function from keys to values).
DictSet(d, key, value) ==
    [k \in DOMAIN d \cup {key} |-> IF k = key THEN value ELSE d[k]]

(* ---------------------------------------------------- github_pagination *)

K_page == <<"p", "a", "g", "e">>
K_URL == <<"U", "R", "L">>
R_first == <<"f", "i", "r", "s", "t">>
R_prev == <<"p", "r", "e", "v">>
R_next == <<"n", "e", "x", "t">>
R_last == <<"l", "a", "s", "t">>
Relations == {R_first, R_prev, R_next, R_last}

\* The dictionary github_pagination starts from.
retval0 ==
    [k \in {r \o K_page : r \in Relations} \cup {r \o K_URL : r \in Relations} |->
        IF SubSeq(k, Len(k) - 2, Len(k)) = K_URL THEN PyNone ELSE PyInt(0)]

\* ParseLink that takes the page number after the first '=' of the query.
ParseLink_firstparam(retval, link) ==
    LET linktype == Inner(Strip(Last(Split(Last(Split(link, ";")), "="))))
        url == Inner(Strip(Split(link, ";")[1]))
        query == Split(Last(Split(url, "?")), "=")
        pageno == Strip(IF Len(query) > 1 THEN query[2] ELSE query[1])
    IN DictSet(DictSet(retval, linktype \o K_page, PyStr(pageno)),
               linktype \o K_URL, PyStr(url))

\* One pass of the loop body over `link`, an entry of the split header.
ParseLink(retval, link) ==
    LET linktype == Inner(Strip(Last(Split(Last(Split(link, ";")), "="))))
        url == Inner(Strip(Split(link, ";")[1]))
        pageno == Strip(Last(Split(Last(Split(url, "?")), "=")))
    IN DictSet(DictSet(retval, linktype \o K_page, PyStr(pageno)),
               linktype \o K_URL, PyStr(url))

RECURSIVE ParseLinks(_, _)
ParseLinks(retval, links) ==
    IF links = <<>> THEN retval
    ELSE ParseLinks(ParseLink(retval, Head(links)), Tail(links))

\* github_pagination on a header string.
PaginationOfString(link_string) == ParseLinks(retval0, Split(link_string, ","))

\* github_pagination that reads a missing Link header as ''.
github_pagination_getdefault(link_header) ==
    IF ~link_header.isresp
    THEN PaginationOfString(link_header.str)
    ELSE PaginationOfString(link_header.headers.Link.s)

\* github_pagination(link_header): link_header is a str value, or a response
\* object [isresp |-> TRUE, headers |-> ...] whose Link header may be absent.
github_pagination(link_header) ==
    IF ~link_header.isresp
    THEN PaginationOfString(link_header.str)
    ELSE IF link_header.headers.Link.t = "none"
         THEN retval0
         ELSE PaginationOfString(link_header.headers.Link.s)

(* ------------------------------------------------------------ json.loads *)

\* The list of int literals `items` (the strings between the commas of an array).
RECURSIVE IntItems(_)
IntItems(items) ==
    IF items = <<>> THEN <<>>
    ELSE <<int(Strip(Head(items)))>> \o IntItems(Tail(items))

IsIntLiteral(str) == str # <<>> /\ \A i \in 1..Len(str) : IsDigit(str[i])

\* json.loads(text) on the JSON the model's server sends: an array of
\* non-negative integer literals gives a list, {} gives an empty dict, any
\* other text raises JSONDecodeError.
json_loads(text) ==
    LET str == Strip(text)
        items == Split(Inner(str), ",")
    IN IF Len(str) >= 2 /\ str[1] = "[" /\ Last(str) = "]"
       THEN IF Strip(Inner(str)) = <<>>
            THEN [kind |-> "list", items |-> <<>>]
            ELSE IF \A i \in 1..Len(items) : IsIntLiteral(Strip(items[i]))
                 THEN [kind |-> "list", items |-> IntItems(items)]
                 ELSE [kind |-> "error", items |-> <<>>]
       ELSE IF str = <<"{", "}">>
            THEN [kind |-> "dict", items |-> <<>>]
            ELSE [kind |-> "error", items |-> <<>>]

(* ------------------------------------------------------- github_rest_api *)

\* Requests sessions are objects; None is NoSession.  The caller's own session
\* is CallerSession, the sessions requests.session() returns are numbered.
NoSession == [owner |-> "none", id |-> 0]
CallerSession == [owner |-> "caller", id |-> 0]

Max(S) == CHOOSE x \in S : \A y \in S : y <= x

\* requests.session(): an object distinct from every session in `live`.
NewSession(live) ==
    [owner |-> "lib", id |-> Max({0} \cup {x.id : x \in live}) + 1]

\* The value the rate-limit fields take when a header is missing.
Sentinel == 999999

ApiRoot == <<"h", "t", "t", "p", "s", ":", "/", "/", "a", "p", "i", ".",
             "g", "i", "t", "h", "u", "b", ".", "c", "o", "m">>

NoHeaders == [Link |-> PyNone, Limit |-> PyNone, Remaining |-> PyNone]

\* The None that github_rest_api returns in place of a response.
NoResponse == [isnone |-> TRUE, status_code |-> 0, text |-> <<>>, headers |-> NoHeaders]

\* The first argument of github_pagination: a str, or a response object.
StrArg(str) == [isresp |-> FALSE, str |-> str, headers |-> NoHeaders]
RespArg(headers) == [isresp |-> TRUE, str |-> <<>>, headers |-> headers]

\* response.ok: raise_for_status() would not raise.
ok(response) == response.status_code < 400

\* SelectSession that caches the session on the state object whether or not
\* the caller passed one.
SelectSession_cached(session, has_state, st, live) ==
    IF session # NoSession
    THEN [sess |-> session, state |-> st, created |-> 0]
    ELSE IF st.requests_session # NoSession
         THEN [sess |-> st.requests_session, state |-> st, created |-> 0]
         ELSE [sess |-> NewSession(live),
               state |-> [st EXCEPT !.requests_session = NewSession(live)],
               created |-> 1]

\* SelectSession that never looks for a session saved on the state object.
SelectSession_nocache(session, has_state, st, live) ==
    IF session # NoSession
    THEN [sess |-> session, state |-> st, created |-> 0]
    ELSE IF has_state
         THEN [sess |-> NewSession(live),
               state |-> [st EXCEPT !.requests_session = NewSession(live)],
               created |-> 1]
         ELSE [sess |-> NewSession(live), state |-> st, created |-> 1]

\* SelectSession that saves an explicitly passed session on the state object.
SelectSession_saveexplicit(session, has_state, st, live) ==
    IF session # NoSession
    THEN [sess |-> session,
          state |-> IF has_state THEN [st EXCEPT !.requests_session = session]
                    ELSE st,
          created |-> 0]
    ELSE IF has_state
         THEN IF st.requests_session # NoSession
              THEN [sess |-> st.requests_session, state |-> st, created |-> 0]
              ELSE [sess |-> NewSession(live),
                    state |-> [st EXCEPT !.requests_session = NewSession(live)],
                    created |-> 1]
         ELSE [sess |-> NewSession(live), state |-> st, created |-> 1]

\* The session the GET goes through: the explicit one, else the state's
\* (created and saved on first use), else a temporary one.
\* Gives the session, the state object afterwards and whether one was created.
SelectSession(session, has_state, st, live) ==
    IF session # NoSession
    THEN [sess |-> session, state |-> st, created |-> 0]
    ELSE IF has_state
         THEN IF st.requests_session # NoSession
              THEN [sess |-> st.requests_session, state |-> st, created |-> 0]
              ELSE [sess |-> NewSession(live),
                    state |-> [st EXCEPT !.requests_session = NewSession(live)],
                    created |-> 1]
         ELSE [sess |-> NewSession(live), state |-> st, created |-> 1]

full_endpoint(endpoint) ==
    IF endpoint[1] = "/" THEN ApiRoot \o endpoint ELSE endpoint

\* UpdateRateLimit whose except clause resets last_remaining only.
UpdateRateLimit_partial(st, response) ==
    IF response.headers.Limit.t = "none"
    THEN [st EXCEPT !.last_remaining = Sentinel]
    ELSE LET st1 == [st EXCEPT !.last_ratelimit = int(response.headers.Limit.s)]
         IN IF response.headers.Remaining.t = "none"
            THEN [st1 EXCEPT !.last_remaining = Sentinel]
            ELSE [st1 EXCEPT !.last_remaining = int(response.headers.Remaining.s)]

\* The try/except that updates the rate-limit fields of the state object.
UpdateRateLimit(st, response) ==
    IF response.headers.Limit.t = "none"
    THEN [st EXCEPT !.last_ratelimit = Sentinel, !.last_remaining = Sentinel]
    ELSE LET st1 == [st EXCEPT !.last_ratelimit = int(response.headers.Limit.s)]
         IN IF response.headers.Remaining.t = "none"
            THEN [st1 EXCEPT !.last_ratelimit = Sentinel, !.last_remaining = Sentinel]
            ELSE [st1 EXCEPT !.last_remaining = int(response.headers.Remaining.s)]

\* The header names a caller uses, beside others it may pass.
HeaderNames == {"Accept", "User-Agent"}

\* A dict of headers: each name has a value or is not in the dict.
Absent == [present |-> FALSE, value |-> ""]
Value(v) == [present |-> TRUE, value |-> v]
EmptyDict == [name \in HeaderNames |-> Absent]

\* The headers argument: None, or a dict.
NoneHeaders == [isnone |-> TRUE, dict |-> EmptyDict]
HeadersArg(dict) == [isnone |-> FALSE, dict |-> dict]

\* not headers
HeadersFalsy(headers) ==
    headers.isnone \/ \A name \in HeaderNames : ~headers.dict[name].present

\* Lines 23 and 127: headers = {} if not headers else headers
NormalizeHeaders(headers) ==
    IF HeadersFalsy(headers) THEN HeadersArg(EmptyDict) ELSE headers

\* {**a, **b}
DictMerge(a, b) ==
    [name \in HeaderNames |-> IF b[name].present THEN b[name] ELSE a[name]]

AcceptV3 == "application/vnd.github.v3+json"
DefaultHeaders == [EmptyDict EXCEPT !["Accept"] = Value(AcceptV3)]

\* headers_dict with the default merged over the caller's headers.
headers_dict_defaultwins(headers) ==
    DictMerge(NormalizeHeaders(headers).dict, DefaultHeaders)

\* Lines 127-128: the headers of the GET.
headers_dict(headers) ==
    DictMerge(DefaultHeaders, NormalizeHeaders(headers).dict)

\* github_rest_api(endpoint=, state=, session=), where `served` is what the
\* server answers if a GET is issued and `live` the sessions that exist.
\* Gives the returned response, the state object afterwards, the GETs issued
\* (none or one, each with its URL, headers and session), the number of sessions
\* created and the lines printed.  (auth is left out: it only sets sess.auth
\* and the user name of the rate-limit line.)
github_rest_api(endpoint, headers, has_state, st, session, served, live) ==
    IF ~Truthy(endpoint)
    THEN [response |-> NoResponse, state |-> st, gets |-> <<>>, created |-> 0,
          out |-> <<"ERROR">>]
    ELSE LET sel == SelectSession(session, has_state, st, live)
             verbose == has_state /\ st.verbose
         IN [response |-> served,
             state |-> IF has_state THEN UpdateRateLimit(sel.state, served)
                       ELSE sel.state,
             gets |-> <<[url |-> full_endpoint(endpoint.s),
                         headers |-> headers_dict(headers), sess |-> sel.sess]>>,
             created |-> sel.created,
             out |-> IF verbose THEN <<"Endpoint", "Rate Limit">> ELSE <<>>]

(* ------------------------------------------------- the server's answers *)

U1 == <<"h", ":", "/", "r", "?", "p", "=", "1">>
U2 == <<"h", ":", "/", "r", "?", "p", "=", "2">>
U5 == <<"h", ":", "/", "r", "?", "p", "=", "5">>
\* A URL whose query string has two parameters.
U3 == <<"h", ":", "/", "r", "?", "a", "=", "1", "&", "p", "=", "3">>

\* The header entry '<url>; rel="rel"'.
Entry(url, rel) ==
    <<"<">> \o url \o <<">", ";", " ", "r", "e", "l", "=", "\"">> \o rel \o <<"\"">>

LinkNextLast == Entry(U2, R_next) \o <<",", " ">> \o Entry(U5, R_last)
LinkPrev == Entry(U1, R_prev)

J1 == <<"[", "1", "]">>
J21 == <<"[", "2", ",", " ", "1", "]">>
JBad == <<"<", ">">>

Statuses == {200, 202, 404}
Bodies == {J1, J21, JBad}
Links == {PyNone, PyStr(LinkNextLast), PyStr(LinkPrev)}
Limits == {PyNone, PyStr(<<"6", "0">>)}
Remainings == {PyNone, PyStr(<<"5", "9">>)}

\* The responses a GET may get.
Responses ==
    {[isnone |-> FALSE, status_code |-> sc, text |-> b,
      headers |-> [Link |-> l, Limit |-> rl, Remaining |-> rr]] :
        sc \in Statuses, b \in Bodies, l \in Links, rl \in Limits, rr \in Remainings}

R_foo == <<"f", "o", "o">>

\* The entries a Link header is made of.
EntryURLs == {U2, U3}
Entries == {Entry(url, rel) : url \in EntryURLs, rel \in Relations \cup {R_foo}}

RECURSIVE Join(_)
Join(entries) ==
    IF Len(entries) = 1 THEN entries[1]
    ELSE entries[1] \o <<",", " ">> \o Join(Tail(entries))

\* The header strings handed to github_pagination: '' and the headers of
\* up to MaxLinks entries.
LinkStrings ==
    {<<>>} \cup
    UNION {{Join(es) : es \in [1..n -> Entries]} : n \in 1..MaxLinks}

\* The arguments of github_pagination: a header string, a response with that
\* Link header, a response with no Link header.
LinkArgs ==
    {StrArg(str) : str \in LinkStrings}
    \cup {RespArg([NoHeaders EXCEPT !.Link = PyStr(str)]) : str \in LinkStrings}
    \cup {RespArg(NoHeaders)}

\* The endpoints a caller passes: None, '', and the root-relative '/r'.
Endpoints == {PyNone, PyStr(<<>>), PyStr(<<"/", "r">>)}

\* The headers arguments a caller passes: None, {} and dicts with an Accept
\* header of its own, with another header, with both.
CallerValue(name) == IF name = "Accept" THEN "application/json" ELSE "dougerino"
HeaderArgs ==
    {NoneHeaders} \cup
    {HeadersArg([name \in HeaderNames |->
                    IF name \in given THEN Value(CallerValue(name)) ELSE Absent]) :
        given \in SUBSET HeaderNames}

(* ------------------------------------------- a server with fixed answers *)

\* The endpoints of a server whose pages link to one another.
ServerURLs == {<<"/", "r">>, U2, U3}
ServerLinks == {PyNone, PyStr(Entry(U2, R_next)), PyStr(Entry(U3, R_next))}

\* What such a server answers for one endpoint: a page of data, a page that
\* is not JSON, or an error.
Answers ==
    {[isnone |-> FALSE, status_code |-> page[1], text |-> page[2],
      headers |-> [NoHeaders EXCEPT !.Link = l]] :
        page \in {<<200, J1>>, <<200, JBad>>, <<404, JBad>>}, l \in ServerLinks}

Servers == [ServerURLs -> Answers]

\* No fixed server: each GET may get any of Responses.
NoServer == [u \in ServerURLs |-> NoResponse]

(* ------------------------------------- dougerino.py: ChangeDirectory *)

\* A directory is the sequence of names from the root.  The directories that
\* exist: /, /a, /a/a and /b.
Dirs == {<<>>, <<"a">>, <<"a", "a">>, <<"b">>}
Home == <<>>

\* A path is absolute, or relative to the working directory.
Abs(parts) == [abs |-> TRUE, parts |-> parts]
Rel(parts) == [abs |-> FALSE, parts |-> parts]

\* The paths a caller passes: /a, /b, a, and /x, which does not exist.
PathArgs == {Abs(<<"a">>), Abs(<<"b">>), Rel(<<"a">>), Abs(<<"x">>)}

\* The directory `path` names when the working directory is `dir`.
Resolve(dir, path) == IF path.abs THEN path.parts ELSE dir \o path.parts

\* saved_path: None, or what os.getcwd() returned.
NoPath == [isnone |-> TRUE, dir |-> <<>>]
Saved(dir) == [isnone |-> FALSE, dir |-> dir]

\* No with-block was just left.
NoBlock == [entry |-> <<>>, by |-> "none"]

(* ----------------------------------------- dougerino.py: progressbar *)

\* progressbar.lastdisplay before anything assigns it.
Unset == [set |-> FALSE, str |-> <<>>]
Attr(str) == [set |-> TRUE, str |-> str]

\* No call of progressbar yet.
NoCall == [first |-> FALSE, before |-> Unset, displaystr |-> <<>>, out |-> "none"]

(* ------------------------------------------------------------- the state *)

VARIABLES
    pc,             \* "idle", "loop" (inside github_allpages), "done", "raised"
    op,             \* the function called last
    arg,            \* its arguments: endpoint, has_state (state is not None), session
    state,          \* the caller's state object
    page_endpoint,  \* github_allpages: endpoint of the next page
    payload,        \* github_allpages: the full data set
    fetched,        \* what this call's GETs were answered, in order: status,
                    \* body and Link header
    gets,           \* this call's GETs, in order: URL and session
    printed,        \* the lines printed, one list per github_rest_api call/page
    created,        \* the number of sessions this call created
    ret,            \* what the call returned or raised
    server          \* the answer of the server for each endpoint, when fixed

\* dougerino.py, ChangeDirectory
VARIABLES
    cwd,            \* os.getcwd()
    blocks,         \* the with-blocks the program is in, innermost last: the
                    \* ChangeDirectory object, the cwd at the with statement and
                    \* whether the body has called os.chdir itself
    unwinding,      \* an exception is propagating
    left            \* the with-block just left: its cwd at entry, and how

\* dougerino.py, progressbar
VARIABLES
    lastdisplay,    \* the attribute progressbar.lastdisplay
    assigned,       \* the caller has assigned progressbar.lastdisplay itself
    call,           \* the last call of progressbar: whether it was the first,
                    \* lastdisplay before it, its display string and outcome
    terminal        \* the last string printed by progressbar

github == <<pc, op, arg, state, page_endpoint, payload, fetched, gets, printed,
            created, ret, server>>
cdVars == <<cwd, blocks, unwinding, left>>
pbVars == <<lastdisplay, assigned, call, terminal>>
dougerino == <<cdVars, pbVars>>

vars == <<github, dougerino>>

NoRet == [kind |-> "none", val |-> <<>>]

Args(endpoint, headers, has_state, session, link_header) ==
    [endpoint |-> endpoint, headers |-> headers, has_state |-> has_state,
     session |-> session, link_header |-> link_header]

NoArgs == Args(PyNone, NoneHeaders, FALSE, NoSession, StrArg(<<>>))

\* The sessions that exist: the caller's, the state's and this call's.
Live == {CallerSession, state.requests_session} \cup {gets[i].sess : i \in 1..Len(gets)}

\* The module dougerino freshly imported, in the home directory.
InitDougerino ==
    /\ cwd = Home
    /\ blocks = <<>>
    /\ unwinding = FALSE
    /\ left = NoBlock
    /\ lastdisplay = Unset
    /\ assigned = FALSE
    /\ call = NoCall
    /\ terminal = Unset

InitGithub ==
    /\ pc = "idle"
    /\ op = "none"
    /\ arg = NoArgs
    /\ state \in {[requests_session |-> NoSession, verbose |-> v,
                   last_ratelimit |-> 0, last_remaining |-> 0] : v \in BOOLEAN}
    /\ page_endpoint = PyNone
    /\ payload = <<>>
    /\ fetched = <<>>
    /\ gets = <<>>
    /\ printed = <<>>
    /\ created = 0
    /\ ret = NoRet

Init ==
    /\ InitGithub
    /\ server = NoServer
    /\ InitDougerino

\* What `fetched` keeps of a response.
Page(response) ==
    [status_code |-> response.status_code, text |-> response.text,
     Link |-> response.headers.Link]

Returned == pc \in {"done", "raised"}

\* The values the per-call variables have between calls.
Cleared ==
    /\ op' = "none"
    /\ arg' = NoArgs
    /\ page_endpoint' = PyNone
    /\ payload' = <<>>
    /\ fetched' = <<>>
    /\ gets' = <<>>
    /\ printed' = <<>>
    /\ created' = 0
    /\ ret' = NoRet

\* The caller is done with what a call returned or raised; the state object
\* lives on.
Return ==
    /\ Returned
    /\ pc' = "idle"
    /\ Cleared
    /\ UNCHANGED <<state, server, dougerino>>

(* ------------------------------------------------------- github_allpages *)

\* The sessions a caller passes: None or its own.
SessionArgs == {NoSession, CallerSession}

\* Lines 23-26: the call, up to the loop, with an endpoint, headers, state
\* and session of the sets given.
AllpagesCall(endpoints, headerArgs, states, sessions) ==
    /\ pc = "idle"
    /\ pc' = "loop"
    /\ op' = "github_allpages"
    /\ \E endpoint \in endpoints, headers \in headerArgs, has_state \in states,
          session \in sessions :
          /\ arg' = Args(endpoint, headers, has_state, session, StrArg(<<>>))
          /\ page_endpoint' = endpoint
    /\ payload' = <<>>
    /\ fetched' = <<>>
    /\ gets' = <<>>
    /\ printed' = <<>>
    /\ created' = 0
    /\ ret' = NoRet
    /\ UNCHANGED <<state, server, dougerino>>

\* A call of github_allpages without headers.
Call_github_allpages ==
    AllpagesCall(Endpoints, {NoneHeaders}, BOOLEAN, SessionArgs)

\* PrintsStatus that tests response.ok in place of status_code != 200.
PrintsStatus_notok(has_state, st, response) ==
    (has_state /\ st.verbose) \/ ~ok(response)

\* Line 31: whether the status line is printed for `response`.
PrintsStatus(has_state, st, response) ==
    (has_state /\ st.verbose) \/ response.status_code # 200

\* ExtendPayload with the page put in front of the data so far.
ExtendPayload_prepend(data, response) ==
    IF ok(response)
    THEN LET thispage == json_loads(response.text)
         IN IF thispage.kind = "error"
            THEN [raised |-> TRUE, payload |-> data]
            ELSE [raised |-> FALSE, payload |-> thispage.items \o data]
    ELSE [raised |-> FALSE, payload |-> data]

\* ExtendPayload without the test of response.ok.
ExtendPayload_anystatus(data, response) ==
    LET thispage == json_loads(response.text)
    IN IF thispage.kind = "error"
       THEN [raised |-> ok(response), payload |-> data]
       ELSE [raised |-> FALSE, payload |-> data \o thispage.items]

\* Lines 35-44: the payload after `response`, or the JSONDecodeError.
ExtendPayload(data, response) ==
    IF ok(response)
    THEN LET thispage == json_loads(response.text)
         IN IF thispage.kind = "error"
            THEN [raised |-> TRUE, payload |-> data]
            ELSE [raised |-> FALSE, payload |-> data \o thispage.items]
    ELSE [raised |-> FALSE, payload |-> data]

\* NextEndpoint that follows the next link of a successful response only.
NextEndpoint_okonly(response) ==
    IF ok(response)
    THEN github_pagination(RespArg(response.headers))[R_next \o K_URL]
    ELSE PyNone

\* NextEndpoint that follows the last link in place of the next link.
NextEndpoint_last(response) ==
    github_pagination(RespArg(response.headers))[R_last \o K_URL]

\* Lines 46-47: the endpoint of the page after `response`.
NextEndpoint(response) ==
    github_pagination(RespArg(response.headers))[R_next \o K_URL]

\* Each response a GET may get, with the endpoint lines 46-47 read from it.
Served(response) == [response |-> response, nextURL |-> NextEndpoint(response)]
Pages == {Served(response) : response \in Responses}

\* Lines 28-51: one pass of the loop, with the return or the exception that
\* ends it, for an answer of `pages`.
PageFetchFrom(pages) ==
    /\ pc = "loop"
    /\ Len(gets) < MaxPages
    /\ \E served \in pages :
       \E r \in {github_rest_api(page_endpoint, NormalizeHeaders(arg.headers),
                                arg.has_state, state, arg.session,
                                served.response, Live)} :
       LET response == r.response
       IN /\ state' = r.state
          /\ gets' = gets \o r.gets
          /\ created' = created + r.created
          /\ IF response.isnone
             THEN \* response.status_code (or response.text) of None
                  /\ pc' = "raised"
                  /\ ret' = [kind |-> "AttributeError", val |-> <<>>]
                  /\ printed' = Append(printed, r.out)
                  /\ UNCHANGED <<payload, page_endpoint, fetched>>
             ELSE \E ext \in {ExtendPayload(payload, response)} :
                  LET status == IF PrintsStatus(arg.has_state, r.state, response)
                                THEN <<"Status">> ELSE <<>>
                  IN /\ printed' = Append(printed, r.out \o status)
                     /\ fetched' = Append(fetched, Page(response))
                     /\ payload' = ext.payload
                     /\ IF ext.raised
                        THEN /\ pc' = "raised"
                             /\ ret' = [kind |-> "JSONDecodeError", val |-> <<>>]
                             /\ UNCHANGED page_endpoint
                        ELSE /\ page_endpoint' = served.nextURL
                             /\ IF ~Truthy(page_endpoint')
                                THEN /\ pc' = "done"
                                     /\ ret' = [kind |-> "list", val |-> payload']
                                ELSE /\ pc' = "loop"
                                     /\ ret' = NoRet
    /\ UNCHANGED <<op, arg, server, dougerino>>

\* One pass of the loop, the server answering anything.
PageFetch == PageFetchFrom(Pages)

(* --------------------------------------------------------- direct calls *)

\* A call of github_rest_api by the caller, with an endpoint, headers, state
\* and answer of the sets given.
RestApiCall(endpoints, headerArgs, states, responses) ==
    /\ pc = "idle"
    /\ \E endpoint \in endpoints, headers \in headerArgs, has_state \in states,
          session \in SessionArgs, served \in responses :
       \E r \in {github_rest_api(endpoint, headers, has_state, state, session,
                                served, Live)} :
          /\ state' = r.state
          /\ gets' = r.gets
          /\ created' = r.created
          /\ printed' = <<r.out>>
          /\ fetched' = IF r.response.isnone THEN <<>> ELSE <<Page(r.response)>>
          /\ ret' = [kind |-> "response", val |-> r.response]
          /\ arg' = Args(endpoint, headers, has_state, session, StrArg(<<>>))
    /\ pc' = "done"
    /\ op' = "github_rest_api"
    /\ payload' = <<>>
    /\ page_endpoint' = PyNone
    /\ UNCHANGED <<server, dougerino>>

\* A call of github_rest_api without headers.
Call_github_rest_api == RestApiCall(Endpoints, {NoneHeaders}, BOOLEAN, Responses)

\* A call of github_pagination by the caller.
Call_github_pagination ==
    /\ pc = "idle"
    /\ \E link_header \in LinkArgs :
          /\ arg' = Args(PyNone, NoneHeaders, FALSE, NoSession, link_header)
          /\ ret' = [kind |-> "dict", val |-> github_pagination(link_header)]
    /\ pc' = "done"
    /\ op' = "github_pagination"
    /\ UNCHANGED <<state, page_endpoint, payload, fetched, gets, printed, created,
                   server, dougerino>>

Next ==
    \/ Call_github_allpages
    \/ PageFetch
    \/ Call_github_rest_api
    \/ Call_github_pagination
    \/ Return

Spec == Init /\ [][Next]_vars

(* ------------------------------------------------------------ properties *)

\* What the server's bodies and Link headers mean, read off the inputs above.
IsArray(page) == page.text \in {J1, J21}
ArrayOf(page) == IF page.text = J1 THEN <<1>> ELSE <<2, 1>>
NextOf(page) == IF page.Link = PyStr(LinkNextLast) THEN PyStr(U2) ELSE PyNone
Success(page) == page.status_code \in 200..299

RECURSIVE ConcatAll(_)
ConcatAll(pages) ==
    IF pages = <<>> THEN <<>>
    ELSE ArrayOf(Head(pages)) \o ConcatAll(Tail(pages))

InAllpages == op = "github_allpages"

\* C1: when every response is successful and carries a JSON array,
\* github_allpages accumulates, and returns, exactly the concatenation of the
\* pages' arrays in fetch order: nothing dropped, deduplicated or re-ordered.
C1_Concatenation ==
    (/\ InAllpages
     /\ pc \in {"loop", "done"}
     /\ \A i \in 1..Len(fetched) : Success(fetched[i]) /\ IsArray(fetched[i]))
    => /\ payload = ConcatAll(fetched)
       /\ pc = "done" => ret = [kind |-> "list", val |-> ConcatAll(fetched)]

C1_Witness ==
    /\ InAllpages
    /\ pc = "done"
    /\ Len(fetched) = 3
    /\ \A i \in 1..3 : Success(fetched[i])
    /\ ret = [kind |-> "list", val |-> <<1, 2, 1, 1>>]

IsOkArray(page) == page.status_code < 400 /\ IsArray(page)

\* C2 as claimed: the body of every fetched page that parses as a JSON array
\* is appended to the result, also when the page's status is not 2xx.
C2_EveryArrayAppended ==
    (InAllpages /\ pc \in {"loop", "done"})
    => payload = ConcatAll(SelectSeq(fetched, IsArray))

\* C2 as amended: the bodies appended are those of the pages whose status is
\* below 400 (response.ok), in order; the body of a page with an error status
\* is skipped, whatever it holds.
C2_OkArraysAppended ==
    (InAllpages /\ pc \in {"loop", "done"})
    => payload = ConcatAll(SelectSeq(fetched, IsOkArray))

C2_Witness ==
    /\ InAllpages
    /\ pc = "done"
    /\ Len(fetched) = 2
    /\ fetched[1].status_code = 404 /\ fetched[1].text = J1
    /\ fetched[2].status_code = 200 /\ fetched[2].text = J21
    /\ payload = <<2, 1>>

\* C3: github_allpages with a None or empty endpoint returns None without
\* raising, issues no GET and prints only the error message.
C3_NoEndpointReturnsNone ==
    (InAllpages /\ ~Truthy(arg.endpoint) /\ Returned)
    => /\ pc = "done"
       /\ ret.kind = "None"
       /\ gets = <<>>
       /\ printed = << <<"ERROR">> >>

\* C4: one GET per page, the first to the input endpoint and each later one to
\* the next URL of the response before it; the loop goes on exactly when the
\* last response has a next link, whatever its status, and a response without
\* one ends the call without an exception.
C4_OneGetPerPage ==
    (InAllpages /\ Truthy(arg.endpoint))
    => /\ Len(gets) = Len(fetched)
       /\ gets # <<>> =>
            gets[1].url = IF arg.endpoint.s[1] = "/" THEN ApiRoot \o arg.endpoint.s
                          ELSE arg.endpoint.s
       /\ \A i \in 1..(Len(gets) - 1) :
            /\ NextOf(fetched[i]) # PyNone
            /\ gets[i + 1].url = NextOf(fetched[i]).s
       /\ (pc = "loop" /\ fetched # <<>>) => NextOf(Last(fetched)) # PyNone
       /\ pc = "done" => NextOf(Last(fetched)) = PyNone
       /\ pc = "raised" => ok(Last(fetched)) /\ ~IsArray(Last(fetched))

C4_Witness ==
    /\ InAllpages
    /\ pc = "done"
    /\ Len(gets) = 3
    /\ fetched[1].status_code = 404
    /\ fetched[2].status_code = 200
    /\ fetched[3].status_code = 404
    /\ fetched[3].Link = PyNone

Throwaway == InAllpages /\ ~arg.has_state /\ arg.session = NoSession

\* C5 as claimed: with neither session nor state, one session is created per
\* github_allpages call and every page GET uses it.
C5_OneSessionPerCall ==
    (Throwaway /\ pc = "done")
    => /\ created = 1
       /\ \A i \in 1..Len(gets) : gets[i].sess = gets[1].sess

\* C5 as amended: with neither session nor state, every page GET creates a
\* session of its own: the sessions created number the GETs issued, no two
\* GETs share one, and none is stored on the state object.
C5_SessionPerGet ==
    Throwaway
    => /\ created = Len(gets)
       /\ \A i, j \in 1..Len(gets) : i # j => gets[i].sess # gets[j].sess
       /\ \A i \in 1..Len(gets) :
            gets[i].sess \notin {NoSession, CallerSession, state.requests_session}

C5_Witness ==
    /\ Throwaway
    /\ pc = "done"
    /\ Len(gets) = 3
    /\ created = 3

IsHttpCall == op \in {"github_allpages", "github_rest_api"}

StateCall == IsHttpCall /\ arg.has_state /\ arg.session = NoSession

\* A step that leaves a session saved on the state object untouched and
\* creates none while one is saved; a step that saves one has just created it.
StateSessionStep ==
    /\ state.requests_session # NoSession =>
         /\ state'.requests_session = state.requests_session
         /\ StateCall' => created' = IF pc = "loop" THEN created ELSE 0
    /\ (state.requests_session = NoSession /\ state'.requests_session # NoSession) =>
         /\ StateCall'
         /\ created' = 1
         /\ state'.requests_session \notin {NoSession, CallerSession}

\* C6: with a state object and no explicit session, the first GET creates a
\* session and saves it on the state; every GET of every page and of every
\* later call uses the saved session, which never changes again: at most one
\* session is created per state object.
C6_StateSession ==
    /\ [](StateCall /\ gets # <<>> =>
            /\ state.requests_session # NoSession
            /\ \A i \in 1..Len(gets) : gets[i].sess = state.requests_session
            /\ created <= 1)
    /\ [][StateSessionStep]_vars

C6_Witness ==
    /\ StateCall
    /\ InAllpages
    /\ pc = "done"
    /\ Len(gets) = 3
    /\ created = 0
    /\ \A i \in 1..3 : gets[i].sess = state.requests_session

ExplicitCall == IsHttpCall /\ arg.has_state /\ arg.session # NoSession

\* C7: an explicit session passed together with a state object is the session
\* of every GET of the call, and the call leaves state.requests_session as it
\* was: not set when empty, not replaced when set.
C7_ExplicitSession ==
    /\ [](ExplicitCall =>
            /\ \A i \in 1..Len(gets) : gets[i].sess = arg.session
            /\ created = 0)
    /\ [][ExplicitCall' => state'.requests_session = state.requests_session]_vars

C7_Witness ==
    /\ ExplicitCall
    /\ InAllpages
    /\ pc = "done"
    /\ Len(gets) = 2
    /\ state.requests_session = NoSession
    /\ \A i \in 1..2 : gets[i].sess = CallerSession

\* The integer a rate-limit header of the server stands for.
RateOf(header) == IF header = PyStr(<<"6", "0">>) THEN 60 ELSE 59

\* C8: with a state object, after a github_rest_api call the rate-limit
\* fields hold the integers of the response's two headers when both are
\* there, and are both 999999 when either is missing: never one real value
\* beside one sentinel, and no exception.
C8_RateLimit ==
    /\ (op = "github_rest_api" /\ arg.has_state /\ Returned /\ ~ret.val.isnone) =>
         /\ pc = "done"
         /\ IF ret.val.headers.Limit # PyNone /\ ret.val.headers.Remaining # PyNone
            THEN /\ state.last_ratelimit = RateOf(ret.val.headers.Limit)
                 /\ state.last_remaining = RateOf(ret.val.headers.Remaining)
            ELSE /\ state.last_ratelimit = 999999
                 /\ state.last_remaining = 999999
    /\ (IsHttpCall /\ arg.has_state /\ gets # <<>>) =>
         <<state.last_ratelimit, state.last_remaining>> \in
            {<<60, 59>>, <<999999, 999999>>}

C8_Witness ==
    /\ op = "github_rest_api"
    /\ arg.has_state
    /\ pc = "done"
    /\ ~ret.val.isnone
    /\ ret.val.headers.Limit # PyNone
    /\ ret.val.headers.Remaining = PyNone
    /\ state.last_ratelimit = 999999
    /\ state.last_remaining = 999999

Verbose == arg.has_state /\ state.verbose

StatusPrinted(i) == \E k \in 1..Len(printed[i]) : printed[i][k] = "Status"

\* C9 as claimed: the status line of a page is printed exactly when the
\* response is not a success or the verbose flag is set.
C9_StatusIffNotSuccess ==
    InAllpages =>
      \A i \in 1..Len(fetched) :
         StatusPrinted(i) <=> (~Success(fetched[i]) \/ Verbose)

\* C9 as amended: the status line of a page is printed exactly when the
\* status code is not 200 or a state object with the verbose flag set was
\* passed; a 2xx status other than 200 is reported too.
C9_StatusIffNot200 ==
    InAllpages =>
      \A i \in 1..Len(fetched) :
         StatusPrinted(i) <=> (fetched[i].status_code # 200 \/ Verbose)

C9_Witness ==
    /\ InAllpages
    /\ ~Verbose
    /\ Len(fetched) = 3
    /\ fetched[1].status_code = 202 /\ StatusPrinted(1)
    /\ fetched[2].status_code = 200 /\ ~StatusPrinted(2)
    /\ fetched[3].status_code = 404 /\ StatusPrinted(3)

\* Whether `sub` occurs in `str`.
Contains(str, sub) ==
    \E i \in 1..(Len(str) - Len(sub) + 1) : SubSeq(str, i, i + Len(sub) - 1) = sub

\* The header string github_pagination was given ('' for a response without
\* a Link header), and whether it names relation `rel`.
HeaderGiven ==
    IF arg.link_header.isresp THEN arg.link_header.headers.Link.s
    ELSE arg.link_header.str

Named(rel) == Contains(HeaderGiven, <<"r", "e", "l", "=", "\"">> \o rel \o <<"\"">>)

\* C10: for every input, github_pagination returns exactly the URL and page
\* fields of first, prev, next and last, and every relation the header does
\* not name is at its default (page 0, URL None).
C10_FixedSlots ==
    (op = "github_pagination" /\ pc = "done")
    => /\ DOMAIN ret.val = DOMAIN retval0
       /\ \A rel \in Relations :
            ~Named(rel) => /\ ret.val[rel \o K_page] = PyInt(0)
                           /\ ret.val[rel \o K_URL] = PyNone

\* C11: for a response object without a Link header github_pagination
\* returns the four relations at their defaults (page 0, URL None) and
\* nothing else, without raising; in github_allpages a page without a Link
\* header is the last one.
C11_NoLinkHeader ==
    /\ (op = "github_pagination" /\ Returned /\ arg.link_header = RespArg(NoHeaders)) =>
         /\ pc = "done"
         /\ ret.kind = "dict"
         /\ Cardinality(DOMAIN ret.val) = 8
         /\ \A rel \in Relations :
              /\ ret.val[rel \o K_page] = PyInt(0)
              /\ ret.val[rel \o K_URL] = PyNone
    /\ (InAllpages /\ fetched # <<>> /\ Last(fetched).Link = PyNone) =>
         /\ Returned
         /\ pc = "raised" => ok(Last(fetched)) /\ ~IsArray(Last(fetched))

C11_Witness ==
    /\ op = "github_pagination"
    /\ pc = "done"
    /\ arg.link_header = RespArg(NoHeaders)
    /\ ret.val[R_next \o K_URL] = PyNone

\* The page value of the URLs the headers are made of.
PageOf(url) ==
    CASE url = U2 -> <<"2">>
      [] url = U3 -> <<"3">>

\* The last place where `sub` occurs in `str`, 0 when it does not.
LastPos(str, sub) ==
    Max({0} \cup {i \in 1..(Len(str) - Len(sub) + 1) :
                     SubSeq(str, i, i + Len(sub) - 1) = sub})

\* The URL of the (last) entry of the header given that names `rel`.
UrlNamed(rel) ==
    CHOOSE url \in EntryURLs :
        \A other \in EntryURLs :
            LastPos(HeaderGiven, Entry(other, rel)) <= LastPos(HeaderGiven, Entry(url, rel))

\* C12: for a header of comma-separated '<url>; rel="relation"' entries,
\* github_pagination maps every relation of first, prev, next, last that an
\* entry names to the URL between the angle brackets of that entry (the last
\* such entry) and to the text after the last '=' of the URL's query string.
C12_NamedRelations ==
    (op = "github_pagination" /\ pc = "done")
    => \A rel \in Relations :
          Named(rel) => /\ ret.val[rel \o K_URL] = PyStr(UrlNamed(rel))
                        /\ ret.val[rel \o K_page] = PyStr(PageOf(UrlNamed(rel)))

C12_Witness ==
    /\ op = "github_pagination"
    /\ pc = "done"
    /\ arg.link_header = StrArg(Entry(U2, R_next) \o <<",", " ">> \o Entry(U3, R_last))
    /\ ret.val[R_next \o K_URL] = PyStr(U2)
    /\ ret.val[R_next \o K_page] = PyStr(<<"2">>)
    /\ ret.val[R_last \o K_URL] = PyStr(U3)
    /\ ret.val[R_last \o K_page] = PyStr(<<"3">>)
    /\ ret.val[R_first \o K_page] = PyInt(0)

(* ------------------------------ github_allpages against a fixed server *)

\* The endpoint the caller starts from.
Start == <<"/", "r">>

InitServer ==
    /\ InitGithub
    /\ ~state.verbose
    /\ server \in Servers
    /\ InitDougerino

\* A call of github_allpages for the first page of the server, with headers
\* and without a state object.
Call_github_allpages_server ==
    AllpagesCall({PyStr(Start)}, HeaderArgs, {FALSE}, SessionArgs)

\* Each answer of a server, with the endpoint lines 46-47 read from it.
ServerPages == {Served(response) : response \in Answers}

\* One pass of the loop, the server giving its answer for page_endpoint.
PageFetch_server ==
    /\ pc = "loop"
    /\ page_endpoint.s \in ServerURLs
    /\ PageFetchFrom({page \in ServerPages : page.response = server[page_endpoint.s]})

\* A call of github_rest_api for the first page of the server, with headers
\* and without a state object.
Call_github_rest_api_server ==
    RestApiCall({PyStr(Start)}, HeaderArgs, {FALSE}, {server[Start]})

NextServer ==
    \/ Call_github_allpages_server
    \/ PageFetch_server
    \/ Call_github_rest_api_server
    \/ Return

\* The loop of lines 28-51 is straight-line code around a GET that the server
\* answers: once in the loop, the next pass is taken.
SpecServer == InitServer /\ [][NextServer]_vars /\ WF_vars(PageFetch_server)

\* The Accept header the call is to send.
SentAccept(headers) ==
    IF ~headers.isnone /\ headers.dict["Accept"].present
    THEN headers.dict["Accept"]
    ELSE Value(AcceptV3)

\* C13: every GET of a call carries the caller's Accept header if the caller
\* gave one and 'application/vnd.github.v3+json' otherwise, and every other
\* header exactly as the caller gave it (absent if not given); the headers are
\* the same for every page of a github_allpages call.
C13_MergedHeaders ==
    \A i \in 1..Len(gets) :
        /\ gets[i].headers["Accept"] = SentAccept(arg.headers)
        /\ \A name \in HeaderNames \ {"Accept"} :
              gets[i].headers[name] =
                 IF arg.headers.isnone THEN Absent ELSE arg.headers.dict[name]

C13_Witness ==
    /\ InAllpages
    /\ Len(gets) >= 2
    /\ arg.headers = HeadersArg([name \in HeaderNames |-> Value(CallerValue(name))])
    /\ gets[2].headers["Accept"] = Value("application/json")
    /\ gets[2].headers["User-Agent"] = Value("dougerino")

\* The endpoint the next link of the server's page `u` names, <<>> if none.
NextOn(u) ==
    LET link == server[u].headers.Link
    IN IF link = PyStr(Entry(U2, R_next)) THEN U2
       ELSE IF link = PyStr(Entry(U3, R_next)) THEN U3
       ELSE <<>>

\* The chain of next links from `u` ends within n pages.
RECURSIVE EndsWithin(_, _)
EndsWithin(u, n) ==
    n > 0 /\ (NextOn(u) = <<>> \/ EndsWithin(NextOn(u), n - 1))

\* The chain of next links from the starting endpoint is finite and acyclic
\* (a chain that visits no endpoint twice has at most one page per endpoint).
Acyclic == EndsWithin(Start, Cardinality(ServerURLs))

\* A pass of the loop has fetched a page.
Fetches == InAllpages /\ Len(fetched') = Len(fetched) + 1

\* C16 as claimed: the loop ends when the chain of next links is finite and
\* acyclic; when the next links form a cycle the loop never ends and every
\* page fetched makes the payload longer.
C16_CycleNeverEnds ==
    /\ (InAllpages /\ pc = "loop" /\ Acyclic) ~> Returned
    /\ []((InAllpages /\ ~Acyclic) => ~Returned)
    /\ [][(Fetches /\ ~Acyclic) => Len(payload') > Len(payload)]_vars

\* C16: the loop ends, by a return or by the JSONDecodeError of a page body,
\* when the chain of next links is finite and acyclic.  When the next links
\* form a cycle the call never returns, and the loop ends only with the
\* JSONDecodeError of a page that has a status below 400 and a body that is
\* not JSON.  Every page fetched adds its items to the payload if it has a
\* status below 400 and a JSON array as body, and leaves the payload as it is
\* otherwise.
C16_Termination ==
    /\ (InAllpages /\ pc = "loop" /\ Acyclic) ~> Returned
    /\ []((InAllpages /\ ~Acyclic)
          => /\ pc # "done"
             /\ pc = "raised" => /\ ret.kind = "JSONDecodeError"
                                 /\ ok(Last(fetched))
                                 /\ ~IsArray(Last(fetched)))
    /\ [][Fetches => payload' = payload \o (IF IsOkArray(Last(fetched'))
                                            THEN ArrayOf(Last(fetched'))
                                            ELSE <<>>)]_vars

\* A cycle of two or more fetched pages, one of them an error page.
C16_Witness ==
    /\ InAllpages
    /\ ~Acyclic
    /\ pc = "loop"
    /\ Len(gets) = MaxPages
    /\ payload # <<>>
    /\ Len(payload) < Len(gets)

(* ------------------------------------- dougerino.py: ChangeDirectory *)

\* The deepest nesting of with-blocks.
MaxDepth == 2

\* Lines 161-163: __init__
ChangeDirectory_init(new_path) == [new_path |-> new_path, saved_path |-> NoPath]

\* __enter__ that reads os.getcwd() after os.chdir.
ChangeDirectory_enter_swapped(self, dir) ==
    LET target == Resolve(dir, self.new_path)
    IN IF target \in Dirs
       THEN [self |-> [self EXCEPT !.saved_path = Saved(target)], cwd |-> target,
             raised |-> FALSE]
       ELSE [self |-> self, cwd |-> dir, raised |-> TRUE]

\* Lines 165-167: __enter__ with working directory `dir`: the object and the
\* working directory after it, and whether os.chdir raised.
ChangeDirectory_enter(self, dir) ==
    LET saved == [self EXCEPT !.saved_path = Saved(dir)]
        target == Resolve(dir, self.new_path)
    IN IF target \in Dirs
       THEN [self |-> saved, cwd |-> target, raised |-> FALSE]
       ELSE [self |-> saved, cwd |-> dir, raised |-> TRUE]

\* Lines 169-170: __exit__: the working directory after it.  It returns None,
\* so an exception of the body propagates.
ChangeDirectory_exit(self) == self.saved_path.dir

\* with ChangeDirectory(new_path): the object is made and entered.  When
\* __enter__ raises, the body is not run and __exit__ is not called.
With ==
    /\ ~unwinding
    /\ Len(blocks) < MaxDepth
    /\ \E new_path \in PathArgs :
       \E e \in {ChangeDirectory_enter(ChangeDirectory_init(new_path), cwd)} :
          /\ cwd' = e.cwd
          /\ unwinding' = e.raised
          /\ blocks' = IF e.raised THEN blocks
                       ELSE Append(blocks, [self |-> e.self, entry |-> cwd,
                                            moved |-> FALSE])
    /\ left' = NoBlock
    /\ UNCHANGED <<github, pbVars>>

\* The program calls os.chdir itself, in the body of the innermost block or
\* outside any block.
Chdir ==
    /\ ~unwinding
    /\ \E path \in PathArgs :
          /\ Resolve(cwd, path) \in Dirs \ {cwd}
          /\ cwd' = Resolve(cwd, path)
    /\ blocks' = IF blocks = <<>> THEN blocks
                 ELSE [blocks EXCEPT ![Len(blocks)].moved = TRUE]
    /\ left' = NoBlock
    /\ UNCHANGED <<unwinding, github, pbVars>>

\* The body of the innermost block raises.
BodyRaise ==
    /\ ~unwinding
    /\ blocks # <<>>
    /\ unwinding' = TRUE
    /\ left' = NoBlock
    /\ UNCHANGED <<cwd, blocks, github, pbVars>>

\* The body of the innermost block completes.
ExitNormal ==
    /\ ~unwinding
    /\ blocks # <<>>
    /\ cwd' = ChangeDirectory_exit(Last(blocks).self)
    /\ blocks' = SubSeq(blocks, 1, Len(blocks) - 1)
    /\ left' = [entry |-> Last(blocks).entry, by |-> "normal"]
    /\ UNCHANGED <<unwinding, github, pbVars>>

\* The exception leaves the innermost block.
ExitRaised ==
    /\ unwinding
    /\ blocks # <<>>
    /\ cwd' = ChangeDirectory_exit(Last(blocks).self)
    /\ blocks' = SubSeq(blocks, 1, Len(blocks) - 1)
    /\ left' = [entry |-> Last(blocks).entry, by |-> "exception"]
    /\ UNCHANGED <<unwinding, github, pbVars>>

\* The exception is caught, in the body of an enclosing block or outside.
Except ==
    /\ unwinding
    /\ unwinding' = FALSE
    /\ left' = NoBlock
    /\ UNCHANGED <<cwd, blocks, github, pbVars>>

NextCD ==
    \/ With
    \/ Chdir
    \/ BodyRaise
    \/ ExitNormal
    \/ ExitRaised
    \/ Except

SpecCD == Init /\ [][NextCD]_vars

\* C14: in a with ChangeDirectory(p) block whose body has not changed
\* directory itself, the working directory is the one p named at entry; and
\* right after the block is left, by completion or by an exception, the working
\* directory is the one of the with statement's entry.  Blocks nest to
\* MaxDepth, each with an object of its own.
C14_RestoresDirectory ==
    /\ (blocks # <<>> /\ ~Last(blocks).moved)
       => cwd = Resolve(Last(blocks).entry, Last(blocks).self.new_path)
    /\ left.by # "none" => cwd = left.entry

C14_Witness ==
    /\ left = [entry |-> <<"a">>, by |-> "exception"]
    /\ cwd = <<"a">>
    /\ Len(blocks) = 1
    /\ blocks[1].entry = <<"b">>
    /\ blocks[1].self.new_path = Abs(<<"a">>)

(* ----------------------------------------- dougerino.py: progressbar *)

\* The default of bar_length.
BarLength == 50
BarLengths == {BarLength, 4}

\* progress is a number of quarters, from 0 to 1.
Parts == 4
Progresses == {[num |-> n, den |-> Parts] : n \in 0..Parts}

\* n * char
Rep(char, n) == [i \in 1..n |-> char]

\* Lines 452-464: the display string.
displaystr(progress, bar_length, done_char, todo_char) ==
    LET done == (bar_length * progress.num) \div progress.den
        todo == bar_length - done
        bar == IF done = 0
               THEN <<"[">> \o Rep(todo_char, bar_length) \o <<"]">>
               ELSE IF done = bar_length
                    THEN <<"[">> \o Rep(done_char, bar_length) \o <<"]">>
                    ELSE <<"[">> \o Rep(done_char, done - 1) \o <<">">>
                         \o Rep(todo_char, todo) \o <<"]">>
    IN IF bar = <<"[">> \o Rep(done_char, bar_length) \o <<"]">>
       THEN bar \o <<"\n">>
       ELSE bar

\* Lines 443-469: a call of progressbar.  Line 467 reads
\* progressbar.lastdisplay: an attribute the function does not have until
\* something assigns it, and reading it then raises AttributeError.
Call_progressbar ==
    /\ \E progress \in Progresses, bar_length \in BarLengths :
       \E str \in {displaystr(progress, bar_length, "=", "-")} :
       LET this == [first |-> call.out = "none", before |-> lastdisplay,
                    displaystr |-> str, out |-> "none"]
       IN IF ~lastdisplay.set
          THEN /\ call' = [this EXCEPT !.out = "AttributeError"]
               /\ UNCHANGED <<lastdisplay, terminal>>
          ELSE IF lastdisplay.str # str
               THEN /\ call' = [this EXCEPT !.out = "printed"]
                    /\ terminal' = Attr(str)
                    /\ lastdisplay' = Attr(str)
               ELSE /\ call' = [this EXCEPT !.out = "silent"]
                    /\ UNCHANGED <<lastdisplay, terminal>>
    /\ UNCHANGED <<assigned, github, cdVars>>

\* The caller assigns progressbar.lastdisplay = '' itself.
Assign_lastdisplay ==
    /\ lastdisplay' = Attr(<<>>)
    /\ assigned' = TRUE
    /\ UNCHANGED <<call, terminal, github, cdVars>>

NextPB ==
    \/ Call_progressbar
    \/ Assign_lastdisplay

SpecPB == Init /\ [][NextPB]_vars

\* C15 as claimed: from the module as imported, with nothing but calls of
\* progressbar, no call raises; the first call prints its bar; a later call
\* prints if and only if its display string differs from
\* progressbar.lastdisplay; and lastdisplay is the last string printed.
C15_PrintsIffChanged ==
    (~assigned /\ call.out # "none")
    => /\ call.out # "AttributeError"
       /\ call.first => call.out = "printed"
       /\ ~call.first => (call.out = "printed" <=> call.before # Attr(call.displaystr))
       /\ lastdisplay = terminal

====
